---- MODULE Spec2Model ----
(***************************************************************************)
(* Type relation and node construction of the Arm(R) Ethos(TM)-U unary     *)
(* elementwise operator, src/relay/op/contrib/ethosu/unary_elementwise.cc. *)
(*                                                                         *)
(* Two specifications are given over one set of variables:                 *)
(*   Spec     a validation pass over a small graph of operator nodes; the  *)
(*            pass always hands the relation the registered number of      *)
(*            type slots (2 inputs + 1 result).                            *)
(*   SpecRel  the constructor and the relation applied directly to inputs  *)
(*            drawn from bounded sets, including type arrays of the wrong  *)
(*            length.                                                      *)
(***************************************************************************)
EXTENDS Integers, Sequences, FiniteSets, TLC

VARIABLES
    nodes,     \* Spec: node id -> <<>> or <<call node>>
    tys,       \* Spec: node id -> the node's type slots <<ifm, lut, result>>
    diags,     \* Spec: diagnostics handed to the diagnostic context, in order
    illTyped,  \* Spec: nodes the pass has marked ill-typed
    hist,      \* Spec: node id -> the relation's invocations on it, in order
    args,      \* SpecRel: the arguments of the last construction
    call,      \* SpecRel: <<>> or <<the constructed call node>>
    types,     \* SpecRel: the type array of the last invocation
    res        \* SpecRel: <<>> or <<the outcome of the last invocation>>

vars == <<nodes, tys, diags, illTyped, hist, args, call, types, res>>
graphVars == <<nodes, tys, diags, illTyped, hist>>
relVars == <<args, call, types, res>>

---------------------------------------------------------------------------
(* Bounds *)

NumNodes == 2
MaxCalls == 2
MaxNonDefault == 2

Nodes == 1..NumNodes

---------------------------------------------------------------------------
(* Types and data types *)

DataTypeInt(bits) == [code |-> "int", bits |-> bits]
DataTypeUInt(bits) == [code |-> "uint", bits |-> bits]
DataTypeFloat(bits) == [code |-> "float", bits |-> bits]

BitsText(bits) ==
    CASE bits = 8 -> "8"
      [] bits = 16 -> "16"
      [] bits = 32 -> "32"
      [] OTHER -> "?"

\* operator<< on a DataType: the type code followed by the bit width
DType2String(dtype) == dtype.code \o BitsText(dtype.bits)

IncompleteType == [kind |-> "IncompleteType"]
TensorType(shape, dtype) == [kind |-> "TensorType", shape |-> shape, dtype |-> dtype]

\* types[i].as<TensorTypeNode>() != nullptr
IsTensorType(type) == type.kind = "TensorType"

DTypes == {DataTypeInt(8), DataTypeUInt(8), DataTypeInt(32), DataTypeFloat(32)}
IfmTypes ==
    {TensorType(<<1, 4, 4, 16>>, d) : d \in DTypes}
        \cup {TensorType(<<1, 4, 1, 4, 16>>, DataTypeUInt(8)),
              TensorType(<<1, 2, 2, 3, 16>>, DataTypeInt(8))}
LutTypes == {TensorType(<<256>>, DataTypeInt(8)), TensorType(<<256>>, DataTypeFloat(32))}

---------------------------------------------------------------------------
(* Attributes *)

AttrsTypeKey == "relay.attrs.EthosuUnaryElementwiseAttrs"
OpName == "contrib.ethosu.unary_elementwise"

\* The values each construction argument is drawn from.
ArgDomain ==
    [ifm            |-> {"ifm"},
     lut            |-> {"lut"},
     operator_type  |-> {"ABS", "SQUARE"},
     ifm_scale      |-> {1, 2},
     ifm_zero_point |-> {0, 1},
     ofm_scale      |-> {1, 2},
     ofm_zero_point |-> {0, 1},
     ofm_channels   |-> {16, 32},
     activation     |-> {"NONE", "CLIP", "LUT"},
     clip_min       |-> {0, 1},
     clip_max       |-> {0, 1},
     rounding_mode  |-> {"TFL", "TRUNCATE"},
     ifm_layout     |-> {"NHWC", "NHCWB16"},
     ofm_layout     |-> {"NHWC", "NHCWB16"}]

ArgNames == DOMAIN ArgDomain

FullArgs ==
    [ifm            : ArgDomain.ifm,
     lut            : ArgDomain.lut,
     operator_type  : ArgDomain.operator_type,
     ifm_scale      : ArgDomain.ifm_scale,
     ifm_zero_point : ArgDomain.ifm_zero_point,
     ofm_scale      : ArgDomain.ofm_scale,
     ofm_zero_point : ArgDomain.ofm_zero_point,
     ofm_channels   : ArgDomain.ofm_channels,
     activation     : ArgDomain.activation,
     clip_min       : ArgDomain.clip_min,
     clip_max       : ArgDomain.clip_max,
     rounding_mode  : ArgDomain.rounding_mode,
     ifm_layout     : ArgDomain.ifm_layout,
     ofm_layout     : ArgDomain.ofm_layout]

\* The defaults the attribute schema declares (set_default), with the
\* arguments that have no default fixed to one value.
DefaultArgs ==
    [ifm            |-> "ifm",
     lut            |-> "lut",
     operator_type  |-> "ABS",
     ifm_scale      |-> 1,
     ifm_zero_point |-> 0,
     ofm_scale      |-> 1,
     ofm_zero_point |-> 0,
     ofm_channels   |-> 16,
     activation     |-> "NONE",
     clip_min       |-> 0,
     clip_max       |-> 0,
     rounding_mode  |-> "TFL",
     ifm_layout     |-> "NHWC",
     ofm_layout     |-> "NHWC"]

\* The arguments whose variety is bounded: an argument record of the model
\* departs from the defaults in at most MaxNonDefault of them.
BoundedArgNames ==
    {"ifm_scale", "ifm_zero_point", "ofm_scale", "ofm_zero_point", "activation",
     "clip_min", "clip_max", "rounding_mode"}

WithinBound(a) ==
    Cardinality({f \in BoundedArgNames : a[f] # DefaultArgs[f]}) <= MaxNonDefault

AllArgs == {a \in FullArgs : WithinBound(a)}

---------------------------------------------------------------------------
(* Node construction *)

\* A bug the constructor could have: the two clip bounds stored crosswise.
MakeSwappedClip(ifm, lut, operator_type, ifm_scale, ifm_zero_point, ofm_scale, ofm_zero_point, ofm_channels, activation, clip_min, clip_max, rounding_mode, ifm_layout, ofm_layout) ==
    [op        |-> OpName,
     args      |-> <<ifm, lut>>,
     attrs     |-> [type_key       |-> AttrsTypeKey,
                    operator_type  |-> operator_type,
                    ifm_scale      |-> ifm_scale,
                    ifm_zero_point |-> ifm_zero_point,
                    ofm_scale      |-> ofm_scale,
                    ofm_zero_point |-> ofm_zero_point,
                    ofm_channels   |-> ofm_channels,
                    activation     |-> activation,
                    clip_min       |-> clip_max,
                    clip_max       |-> clip_min,
                    rounding_mode  |-> rounding_mode,
                    ifm_layout     |-> ifm_layout,
                    ofm_layout     |-> ofm_layout],
     type_args |-> <<>>]

\* Builds the attribute record field by field and returns
\* Call(op, {ifm, lut}, Attrs(attrs), {}).  Nothing else is touched.
MakeEthosuUnaryElementwise(ifm, lut, operator_type, ifm_scale, ifm_zero_point, ofm_scale, ofm_zero_point, ofm_channels, activation, clip_min, clip_max, rounding_mode, ifm_layout, ofm_layout) ==
    [op        |-> OpName,
     args      |-> <<ifm, lut>>,
     attrs     |-> [type_key       |-> AttrsTypeKey,
                    operator_type  |-> operator_type,
                    ifm_scale      |-> ifm_scale,
                    ifm_zero_point |-> ifm_zero_point,
                    ofm_scale      |-> ofm_scale,
                    ofm_zero_point |-> ofm_zero_point,
                    ofm_channels   |-> ofm_channels,
                    activation     |-> activation,
                    clip_min       |-> clip_min,
                    clip_max       |-> clip_max,
                    rounding_mode  |-> rounding_mode,
                    ifm_layout     |-> ifm_layout,
                    ofm_layout     |-> ofm_layout],
     type_args |-> <<>>]

\* The packed-function entry point: the constructor applied to an argument
\* record.
MakeCall(a) ==
    MakeEthosuUnaryElementwise(a.ifm, a.lut, a.operator_type, a.ifm_scale,
                               a.ifm_zero_point, a.ofm_scale, a.ofm_zero_point,
                               a.ofm_channels, a.activation, a.clip_min,
                               a.clip_max, a.rounding_mode, a.ifm_layout,
                               a.ofm_layout)

---------------------------------------------------------------------------
(* Shape Transform (common.h, not part of this file) *)

\* Layout-aware output shape: the input is reduced to (N, H, W), the declared
\* channel count becomes the channel dimension, and a channel-blocked output
\* is split into bricks of 16.  The channel counts used are multiples of 16,
\* for which the brick count equals the documented ofm_channels // 16.
EthosuInferElementwiseOutputShape(ifm_shape, ifm_layout, ofm_layout, ofm_channels) ==
    LET nhw == IF ifm_layout = "NHCWB16"
               THEN <<ifm_shape[1], ifm_shape[2], ifm_shape[4]>>
               ELSE <<ifm_shape[1], ifm_shape[2], ifm_shape[3]>>
        oshape == nhw \o <<ofm_channels>>
    IN  IF ofm_layout = "NHCWB16"
        THEN <<oshape[1], oshape[2], 1 + ((oshape[4] - 1) \div 16), oshape[3], 16>>
        ELSE oshape

---------------------------------------------------------------------------
(* Type relation *)

ifm_index == 0
result_index == 2

\* What one invocation of the relation did:
\*   ret      "true" / "false", or "none" when a check raised instead
\*   raised   an ICHECK / CHECK failed
\*   emitted  the diagnostics handed to reporter->GetDiagCtx().EmitFatal
\*   assigns  the reporter->Assign calls, as <<slot index, type>>
\*   steps    the checks evaluated, in order
Outcome(ret, raised, emitted, assigns, steps) ==
    [ret |-> ret, raised |-> raised, emitted |-> emitted, assigns |-> assigns,
     steps |-> steps]

\* Diagnostic::Error(span) << part << part ...
DiagnosticError(span, message) == [level |-> "Error", span |-> span, message |-> message]

OperatorTypeMessage(operator_type) ==
    <<"Invalid operator: expected ethosu_unary_elementwise 'ABS' for operator_type but was",
      operator_type>>

DTypeMessage(ifm_dtype) ==
    <<"Invalid operator: expected ethosu_unary_elementwise input data type ",
      "of type(uint8) or type(int8) but was ",
      DType2String(ifm_dtype)>>

\* A defect: the arity check written as "at least" (ICHECK_GE).
ArityAtLeast(typeArray) == Len(typeArray) >= result_index + 1

\* ICHECK_EQ(types.size(), result_index + 1)
ArityOk(typeArray) == Len(typeArray) = result_index + 1

\* A defect: a second operator tag is let through.
OperatorRejectedUnlessKnown(operator_type) == operator_type \notin {"ABS", "SQUARE"}

\* operator_type != "ABS"
OperatorRejected(operator_type) == operator_type # "ABS"

\* A defect: only the type code is compared, not the bit width.
DTypeRejectedByCode(ifm_dtype) == ifm_dtype.code \notin {"int", "uint"}

\* ifm_dtype != DataType::UInt(8) && ifm_dtype != DataType::Int(8)
DTypeRejected(ifm_dtype) ==
    ifm_dtype # DataTypeUInt(8) /\ ifm_dtype # DataTypeInt(8)

\* A defect: the input shape is passed through without the Shape Transform.
OfmTypeSameShape(ifm, param) == TensorType(ifm.shape, ifm.dtype)

\* TensorType(ofm_shape, ifm_dtype), with ofm_shape from the Shape Transform
OfmType(ifm, param) ==
    TensorType(EthosuInferElementwiseOutputShape(ifm.shape, param.ifm_layout,
                                                 param.ofm_layout, param.ofm_channels),
               ifm.dtype)

\* A defect the validation could have: the data type is checked before
\* operator_type.
ValidateDTypeFirst(ifm, param, reporter) ==
    IF param.type_key # AttrsTypeKey
    THEN Outcome("none", TRUE, <<>>, <<>>, <<"arity", "ifm", "param">>)
    ELSE IF DTypeRejected(ifm.dtype)
    THEN Outcome("false", FALSE,
                 <<DiagnosticError(reporter.span, DTypeMessage(ifm.dtype))>>,
                 <<>>, <<"arity", "ifm", "param", "dtype">>)
    ELSE IF OperatorRejected(param.operator_type)
    THEN Outcome("false", FALSE,
                 <<DiagnosticError(reporter.span, OperatorTypeMessage(param.operator_type))>>,
                 <<>>, <<"arity", "ifm", "param", "dtype", "operator_type">>)
    ELSE Outcome("true", FALSE, <<>>,
                 <<<<result_index, OfmType(ifm, param)>>>>,
                 <<"arity", "ifm", "param", "dtype", "operator_type", "shape">>)

\* A defect the validation could have: an unsupported data type returns
\* false without a diagnostic.
ValidateSilentDType(ifm, param, reporter) ==
    IF param.type_key # AttrsTypeKey
    THEN Outcome("none", TRUE, <<>>, <<>>, <<"arity", "ifm", "param">>)
    ELSE IF OperatorRejected(param.operator_type)
    THEN Outcome("false", FALSE,
                 <<DiagnosticError(reporter.span, OperatorTypeMessage(param.operator_type))>>,
                 <<>>, <<"arity", "ifm", "param", "operator_type">>)
    ELSE IF DTypeRejected(ifm.dtype)
    THEN Outcome("false", FALSE, <<>>, <<>>,
                 <<"arity", "ifm", "param", "operator_type", "dtype">>)
    ELSE Outcome("true", FALSE, <<>>,
                 <<<<result_index, OfmType(ifm, param)>>>>,
                 <<"arity", "ifm", "param", "operator_type", "dtype", "shape">>)

\* A defect the validation could have: a CLIP activation with crossed bounds
\* is rejected.
ValidateClipChecked(ifm, param, reporter) ==
    IF param.type_key # AttrsTypeKey
    THEN Outcome("none", TRUE, <<>>, <<>>, <<"arity", "ifm", "param">>)
    ELSE IF OperatorRejected(param.operator_type)
    THEN Outcome("false", FALSE,
                 <<DiagnosticError(reporter.span, OperatorTypeMessage(param.operator_type))>>,
                 <<>>, <<"arity", "ifm", "param", "operator_type">>)
    ELSE IF DTypeRejected(ifm.dtype)
    THEN Outcome("false", FALSE,
                 <<DiagnosticError(reporter.span, DTypeMessage(ifm.dtype))>>,
                 <<>>, <<"arity", "ifm", "param", "operator_type", "dtype">>)
    ELSE IF param.activation = "CLIP" /\ param.clip_min > param.clip_max
    THEN Outcome("false", FALSE,
                 <<DiagnosticError(reporter.span, OperatorTypeMessage(param.activation))>>,
                 <<>>, <<"arity", "ifm", "param", "operator_type", "dtype">>)
    ELSE Outcome("true", FALSE, <<>>,
                 <<<<result_index, OfmType(ifm, param)>>>>,
                 <<"arity", "ifm", "param", "operator_type", "dtype", "shape">>)

\* The part of the relation after the primary input was found to be a tensor
\* type: attribute cast, operator check, data-type check, shape, assignment.
Validate(ifm, param, reporter) ==
    IF param.type_key # AttrsTypeKey
    THEN Outcome("none", TRUE, <<>>, <<>>, <<"arity", "ifm", "param">>)
    ELSE IF OperatorRejected(param.operator_type)
    THEN Outcome("false", FALSE,
                 <<DiagnosticError(reporter.span, OperatorTypeMessage(param.operator_type))>>,
                 <<>>, <<"arity", "ifm", "param", "operator_type">>)
    ELSE IF DTypeRejected(ifm.dtype)
    THEN Outcome("false", FALSE,
                 <<DiagnosticError(reporter.span, DTypeMessage(ifm.dtype))>>,
                 <<>>, <<"arity", "ifm", "param", "operator_type", "dtype">>)
    ELSE Outcome("true", FALSE, <<>>,
                 <<<<result_index, OfmType(ifm, param)>>>>,
                 <<"arity", "ifm", "param", "operator_type", "dtype", "shape">>)

\* A defect the relation could have: operator_type is validated before the
\* primary input is known to be a tensor type.
RelOperatorBeforeIfm(typeArray, num_inputs, attrs, reporter) ==
    IF ~ArityOk(typeArray)
    THEN Outcome("none", TRUE, <<>>, <<>>, <<"arity">>)
    ELSE IF OperatorRejected(attrs.operator_type)
    THEN Outcome("false", FALSE,
                 <<DiagnosticError(reporter.span, OperatorTypeMessage(attrs.operator_type))>>,
                 <<>>, <<"arity", "param", "operator_type">>)
    ELSE IF ~IsTensorType(typeArray[ifm_index + 1])
    THEN Outcome("false", FALSE, <<>>, <<>>, <<"arity", "param", "operator_type", "ifm">>)
    ELSE Validate(typeArray[ifm_index + 1], attrs, reporter)

\* A defect the relation could have: a process-wide error flag, so that once
\* any diagnostic was reported every later invocation gives up.
RelStickyError(typeArray, num_inputs, attrs, reporter) ==
    IF ~ArityOk(typeArray)
    THEN Outcome("none", TRUE, <<>>, <<>>, <<"arity">>)
    ELSE IF diags # <<>> \/ ~IsTensorType(typeArray[ifm_index + 1])
    THEN Outcome("false", FALSE, <<>>, <<>>, <<"arity", "ifm">>)
    ELSE Validate(typeArray[ifm_index + 1], attrs, reporter)

\* bool EthosuUnaryElementwiseRel(types, num_inputs, attrs, reporter)
EthosuUnaryElementwiseRel(typeArray, num_inputs, attrs, reporter) ==
    IF ~ArityOk(typeArray)
    THEN Outcome("none", TRUE, <<>>, <<>>, <<"arity">>)
    ELSE IF ~IsTensorType(typeArray[ifm_index + 1])
    THEN Outcome("false", FALSE, <<>>, <<>>, <<"arity", "ifm">>)
    ELSE Validate(typeArray[ifm_index + 1], attrs, reporter)

\* set_num_inputs(2)
NumInputs == 2

---------------------------------------------------------------------------
(* Spec: a validation pass over a graph of operator nodes *)

GraphArgs ==
    {a \in AllArgs :
        \A f \in ArgNames \ {"operator_type"} : a[f] = DefaultArgs[f]}

GraphIfmTypes ==
    {TensorType(<<1, 4, 4, 16>>, d) :
        d \in {DataTypeUInt(8), DataTypeInt(32), DataTypeFloat(32)}}

\* reporter->Assign(types[i], type) for each recorded assignment
ApplyAssigns(slots, assigns) ==
    [i \in 1..Len(slots) |->
        IF \E k \in 1..Len(assigns) : assigns[k][1] + 1 = i
        THEN assigns[CHOOSE k \in 1..Len(assigns) : assigns[k][1] + 1 = i][2]
        ELSE slots[i]]

InitGraph ==
    /\ nodes = [n \in Nodes |-> <<>>]
    /\ tys = [n \in Nodes |-> <<IncompleteType, IncompleteType, IncompleteType>>]
    /\ diags = <<>>
    /\ illTyped = {}
    /\ hist = [n \in Nodes |-> <<>>]

InitDirect ==
    /\ args = DefaultArgs
    /\ call = <<>>
    /\ types = <<IncompleteType, IncompleteType, IncompleteType>>
    /\ res = <<>>

Init == InitGraph /\ InitDirect

\* The graph builder constructs node n.
Make(n, a) ==
    /\ nodes[n] = <<>>
    /\ nodes' = [nodes EXCEPT ![n] = <<MakeCall(a)>>]
    /\ UNCHANGED <<tys, diags, illTyped, hist, relVars>>

\* The pass learns the type of node n's primary input.
ResolveIfm(n, t) ==
    /\ nodes[n] # <<>>
    /\ tys[n][1] = IncompleteType
    /\ tys' = [tys EXCEPT ![n][1] = t]
    /\ UNCHANGED <<nodes, diags, illTyped, hist, relVars>>

\* The pass runs the relation on node n: diagnostics go to the diagnostic
\* context, a node that got one is marked ill-typed and not tried again, and
\* assignments are unified into the node's slots.
Infer(n) ==
    /\ nodes[n] # <<>>
    /\ n \notin illTyped
    /\ Len(hist[n]) < MaxCalls
    /\ LET r == EthosuUnaryElementwiseRel(tys[n], NumInputs, nodes[n][1].attrs,
                                          [span |-> n])
       IN  /\ diags' = diags \o r.emitted
           /\ illTyped' = IF r.emitted # <<>> THEN illTyped \cup {n} ELSE illTyped
           /\ tys' = [tys EXCEPT ![n] = ApplyAssigns(tys[n], r.assigns)]
           /\ hist' = [hist EXCEPT ![n] =
                          Append(hist[n], [types |-> tys[n],
                                           attrs |-> nodes[n][1].attrs,
                                           out   |-> r])]
    /\ UNCHANGED <<nodes, relVars>>

Next ==
    \E n \in Nodes :
        \/ \E a \in GraphArgs : Make(n, a)
        \/ \E t \in GraphIfmTypes : ResolveIfm(n, t)
        \/ Infer(n)

Spec == Init /\ [][Next]_vars

---------------------------------------------------------------------------
(* SpecRel: the constructor and the relation applied directly *)

TypeArrays ==
    LET ifms == IfmTypes \cup {IncompleteType}
        luts == LutTypes \cup {IncompleteType}
    IN  {<<i, l>> : i \in ifms, l \in luts}
        \cup {<<i, l, IncompleteType>> : i \in ifms, l \in luts}
        \cup {<<i, l, IncompleteType, IncompleteType>> : i \in ifms, l \in luts}

\* Argument records that differ from a in exactly one argument.
ArgVariants(a) ==
    {b \in UNION {{[a EXCEPT ![g] = w] : w \in ArgDomain[g] \ {a[g]}} : g \in ArgNames} :
        WithinBound(b)}

\* Type arrays of the same length that differ from t in exactly one slot.
SlotVariants(t) ==
    {u \in TypeArrays :
        /\ Len(u) = Len(t)
        /\ Cardinality({i \in 1..Len(t) : u[i] # t[i]}) = 1}

Construct(a) ==
    /\ call = <<>>
    /\ args' = a
    /\ call' = <<MakeCall(a)>>
    /\ UNCHANGED <<types, res, graphVars>>

Invoke(t) ==
    /\ call # <<>>
    /\ res = <<>>
    /\ types' = t
    /\ res' = <<EthosuUnaryElementwiseRel(t, NumInputs, call[1].attrs, [span |-> 0])>>
    /\ UNCHANGED <<args, call, graphVars>>

\* A second node that differs in one argument is constructed and the
\* relation is run on it with the same type array.
InvokeArgVariant(a) ==
    /\ res # <<>>
    /\ args' = a
    /\ call' = <<MakeCall(a)>>
    /\ res' = <<EthosuUnaryElementwiseRel(types, NumInputs, MakeCall(a).attrs,
                                          [span |-> 0])>>
    /\ UNCHANGED <<types, graphVars>>

\* The relation is run on the same node with one type slot changed.
InvokeSlotVariant(t) ==
    /\ res # <<>>
    /\ types' = t
    /\ res' = <<EthosuUnaryElementwiseRel(t, NumInputs, call[1].attrs, [span |-> 0])>>
    /\ UNCHANGED <<args, call, graphVars>>

ConstructAny == \E a \in AllArgs : Construct(a)
InvokeAny == \E t \in TypeArrays : Invoke(t)
InvokeAnyArgVariant == \E a \in ArgVariants(args) : InvokeArgVariant(a)
InvokeAnySlotVariant == \E t \in SlotVariants(types) : InvokeSlotVariant(t)

NextRel ==
    \/ ConstructAny
    \/ InvokeAny
    \/ InvokeAnyArgVariant
    \/ InvokeAnySlotVariant

SpecRel == Init /\ [][NextRel]_vars

---------------------------------------------------------------------------
(* Properties of the direct applications (SpecRel) *)

Supported8Bit == {DataTypeInt(8), DataTypeUInt(8)}

\* The attribute record the last invocation was given.
Param == call[1].attrs

\* C1: with exactly 3 type slots, a resolved primary input of element type
\* int8 or uint8 and operator_type 'ABS', the relation returns true and
\* assigns to slot 2 a tensor type with the input's element type and the
\* Shape Transform's shape for (input shape, ifm_layout, ofm_layout,
\* ofm_channels); NHCWB16 (1,4,1,4,16) with 16 channels to NHWC gives
\* (1,4,4,16).
C1_AbsInference ==
    (/\ res # <<>>
     /\ Len(types) = 3
     /\ IsTensorType(types[1])
     /\ types[1].dtype \in Supported8Bit
     /\ Param.operator_type = "ABS")
    => /\ res[1].ret = "true"
       /\ ~res[1].raised
       /\ res[1].emitted = <<>>
       /\ Len(res[1].assigns) = 1
       /\ res[1].assigns[1][1] = 2
       /\ IsTensorType(res[1].assigns[1][2])
       /\ res[1].assigns[1][2].dtype = types[1].dtype
       /\ res[1].assigns[1][2].shape =
             EthosuInferElementwiseOutputShape(types[1].shape, Param.ifm_layout,
                                               Param.ofm_layout, Param.ofm_channels)
       /\ (/\ types[1].shape = <<1, 4, 1, 4, 16>>
           /\ Param.ifm_layout = "NHCWB16"
           /\ Param.ofm_layout = "NHWC"
           /\ Param.ofm_channels = 16)
          => res[1].assigns[1][2].shape = <<1, 4, 4, 16>>

C1_Witness ==
    /\ res # <<>>
    /\ types = <<TensorType(<<1, 4, 1, 4, 16>>, DataTypeUInt(8)), IncompleteType,
                 IncompleteType>>
    /\ Param.operator_type = "ABS"
    /\ Param.ifm_layout = "NHCWB16"
    /\ Param.ofm_layout = "NHWC"
    /\ Param.ofm_channels = 16
    /\ res[1].assigns = <<<<2, TensorType(<<1, 4, 4, 16>>, DataTypeUInt(8))>>>>

\* C6: invoked with a number of type slots other than 3, the relation raises
\* at the arity check, before any slot or attribute is inspected: nothing is
\* handed to the reporter, no slot is assigned and nothing is returned.
C6_ArityAbort ==
    (res # <<>> /\ Len(types) # 3)
    => /\ res[1].raised
       /\ res[1].ret = "none"
       /\ res[1].emitted = <<>>
       /\ res[1].assigns = <<>>
       /\ res[1].steps = <<"arity">>

C6_Witness ==
    /\ res # <<>>
    /\ Len(types) = 4
    /\ IsTensorType(types[1])
    /\ types[1].dtype = DataTypeFloat(32)
    /\ Param.operator_type = "SQUARE"
    /\ res[1].raised

\* The twelve attribute fields of the constructed node equal the arguments.
AttrsMatchArgs ==
    /\ call[1].attrs.operator_type = args.operator_type
    /\ call[1].attrs.ifm_scale = args.ifm_scale
    /\ call[1].attrs.ifm_zero_point = args.ifm_zero_point
    /\ call[1].attrs.ofm_scale = args.ofm_scale
    /\ call[1].attrs.ofm_zero_point = args.ofm_zero_point
    /\ call[1].attrs.ofm_channels = args.ofm_channels
    /\ call[1].attrs.activation = args.activation
    /\ call[1].attrs.clip_min = args.clip_min
    /\ call[1].attrs.clip_max = args.clip_max
    /\ call[1].attrs.rounding_mode = args.rounding_mode
    /\ call[1].attrs.ifm_layout = args.ifm_layout
    /\ call[1].attrs.ofm_layout = args.ofm_layout

\* C8: construction returns a call node bound to the registered operator,
\* with operands (ifm, lut) and an attribute record whose twelve fields equal
\* the arguments, and the construction step does not run the relation: the
\* node exists with no invocation outcome and no diagnostic, also for an
\* unsupported operator_type.
C8_Construction ==
    /\ [](call # <<>> =>
            /\ call[1].op = "contrib.ethosu.unary_elementwise"
            /\ call[1].args = <<args.ifm, args.lut>>
            /\ call[1].attrs.type_key = "relay.attrs.EthosuUnaryElementwiseAttrs"
            /\ AttrsMatchArgs)
    /\ [][(call = <<>> /\ call' # <<>>) => (res = <<>> /\ res' = <<>>)]_vars

C8_Witness ==
    /\ call # <<>>
    /\ res = <<>>
    /\ call[1].attrs.operator_type = "SQUARE"
    /\ call[1].attrs.clip_min = 1
    /\ call[1].attrs.clip_max = 0

CheckOrder == <<"arity", "ifm", "param", "operator_type", "dtype", "shape">>

IsPrefix(p, q) == Len(p) <= Len(q) /\ \A i \in 1..Len(p) : p[i] = q[i]

\* C9: the checks run in the order arity, operator_type, data type, shape;
\* the first failing check decides the outcome: at most one diagnostic is
\* emitted, a node with both an unsupported operator_type and an unsupported
\* element type gets the operator_type diagnostic, and the shape is never
\* computed for an invocation that fails.
C9_CheckOrder ==
    res # <<>> =>
       /\ IsPrefix(res[1].steps, CheckOrder)
       /\ Len(res[1].emitted) <= 1
       /\ (Len(types) # 3) => res[1].steps = <<"arity">>
       /\ (/\ Len(types) = 3
           /\ IsTensorType(types[1])
           /\ Param.operator_type # "ABS")
          => /\ res[1].emitted # <<>>
             /\ res[1].emitted[1].message = OperatorTypeMessage(Param.operator_type)
             /\ res[1].steps[Len(res[1].steps)] = "operator_type"
       /\ (/\ Len(types) = 3
           /\ IsTensorType(types[1])
           /\ Param.operator_type = "ABS"
           /\ types[1].dtype \notin Supported8Bit)
          => res[1].steps[Len(res[1].steps)] = "dtype"
       /\ (res[1].ret # "true") =>
             /\ \A i \in 1..Len(res[1].steps) : res[1].steps[i] # "shape"
             /\ res[1].assigns = <<>>

C9_Witness ==
    /\ res # <<>>
    /\ Len(types) = 3
    /\ IsTensorType(types[1])
    /\ types[1].dtype = DataTypeFloat(32)
    /\ Param.operator_type = "SQUARE"
    /\ Len(res[1].emitted) = 1
    /\ res[1].emitted[1].message[2] = "SQUARE"

\* What the outcome may depend on.
Relevant ==
    <<types[1], Param.operator_type, Param.ifm_layout, Param.ofm_layout,
      Param.ofm_channels>>

\* C10: two invocations that agree on the primary input type, operator_type,
\* ifm_layout, ofm_layout and ofm_channels have the same outcome, whatever
\* the lut slot, scales, zero points, activation, clip bounds and rounding
\* mode are; CLIP with clip_min > clip_max and LUT with an unresolved lut are
\* accepted.
C10_DependsOnlyOnRelevant ==
    /\ [][(res # <<>> /\ res' # <<>> /\ Relevant' = Relevant) => res' = res]_vars
    /\ []((/\ res # <<>>
           /\ Len(types) = 3
           /\ IsTensorType(types[1])
           /\ types[1].dtype \in Supported8Bit
           /\ Param.operator_type = "ABS"
           /\ \/ Param.activation = "CLIP" /\ Param.clip_min > Param.clip_max
              \/ Param.activation = "LUT" /\ types[2] = IncompleteType)
          => res[1].ret = "true")

C10_Witness ==
    /\ res # <<>>
    /\ res[1].ret = "true"
    /\ Param.activation = "CLIP"
    /\ Param.clip_min > Param.clip_max
    /\ types[2] = IncompleteType

---------------------------------------------------------------------------
(* Properties of the validation pass (Spec) *)

\* The invocations recorded so far, as <<node, position>>.
Entries == {<<n, k>> \in Nodes \X (1..MaxCalls) : k <= Len(hist[n])}

Names(message, text) == \E j \in 1..Len(message) : message[j] = text

\* The neutral result: false, no diagnostic, no assignment, nothing raised.
IsDeferral(out) ==
    /\ out.ret = "false"
    /\ ~out.raised
    /\ out.emitted = <<>>
    /\ out.assigns = <<>>

\* A failure with one diagnostic naming text, and no assignment.
FailsNaming(out, text) ==
    /\ out.ret = "false"
    /\ Len(out.emitted) = 1
    /\ Names(out.emitted[1].message, text)
    /\ out.assigns = <<>>

\* C2 as stated: for every operator_type other than 'ABS', inference fails
\* with a diagnostic naming the value and assigns nothing.
C2_AsStated ==
    \A e \in Entries :
        LET c == hist[e[1]][e[2]] IN
        c.attrs.operator_type # "ABS" => FailsNaming(c.out, c.attrs.operator_type)

\* C2 amended: whenever the primary input is a resolved tensor type, every
\* operator_type other than 'ABS' makes inference fail with a diagnostic
\* naming the value, and nothing is assigned to the result slot.
C2_UnsupportedOperator ==
    \A e \in Entries :
        LET c == hist[e[1]][e[2]] IN
        (IsTensorType(c.types[1]) /\ c.attrs.operator_type # "ABS")
        => FailsNaming(c.out, c.attrs.operator_type)

C2_Witness ==
    \E e \in Entries :
        LET c == hist[e[1]][e[2]] IN
        /\ IsTensorType(c.types[1])
        /\ c.types[1].dtype = DataTypeUInt(8)
        /\ c.attrs.operator_type = "SQUARE"
        /\ Len(c.out.emitted) = 1
        /\ c.out.emitted[1].message[2] = "SQUARE"

\* C3 as stated: for every primary input element type outside {int8, uint8},
\* inference fails with a diagnostic naming the data type and assigns
\* nothing.
C3_AsStated ==
    \A e \in Entries :
        LET c == hist[e[1]][e[2]] IN
        (IsTensorType(c.types[1]) /\ c.types[1].dtype \notin Supported8Bit)
        => FailsNaming(c.out, DType2String(c.types[1].dtype))

\* C3 amended: when operator_type is 'ABS', every primary input element type
\* outside {int8, uint8} makes inference fail with a diagnostic naming the
\* data type, and nothing is assigned to the result slot.
C3_UnsupportedDType ==
    \A e \in Entries :
        LET c == hist[e[1]][e[2]] IN
        (/\ IsTensorType(c.types[1])
         /\ c.types[1].dtype \notin Supported8Bit
         /\ c.attrs.operator_type = "ABS")
        => FailsNaming(c.out, DType2String(c.types[1].dtype))

C3_Witness ==
    \E e \in Entries :
        LET c == hist[e[1]][e[2]] IN
        /\ IsTensorType(c.types[1])
        /\ c.types[1].dtype = DataTypeFloat(32)
        /\ c.attrs.operator_type = "ABS"
        /\ Len(c.out.emitted) = 1
        /\ c.out.emitted[1].message[3] = "float32"

\* C4: while the primary input slot is not a resolved tensor type, the
\* relation returns the neutral result for every attribute record, and an
\* invocation made after the input was resolved validates as usual: it ends
\* in an assignment or in a diagnostic.
C4_Deferral ==
    \A e \in Entries :
        LET c == hist[e[1]][e[2]] IN
        /\ ~IsTensorType(c.types[1]) => IsDeferral(c.out)
        /\ (/\ e[2] > 1
            /\ IsDeferral(hist[e[1]][e[2] - 1].out)
            /\ IsTensorType(c.types[1]))
           => /\ ~IsDeferral(c.out)
              /\ ~c.out.raised
              /\ \/ c.out.ret = "true" /\ Len(c.out.assigns) = 1
                 \/ c.out.ret = "false" /\ Len(c.out.emitted) = 1

C4_Witness ==
    \E n \in Nodes :
        /\ Len(hist[n]) = 2
        /\ hist[n][1].attrs.operator_type = "SQUARE"
        /\ ~IsTensorType(hist[n][1].types[1])
        /\ IsDeferral(hist[n][1].out)
        /\ IsTensorType(hist[n][2].types[1])
        /\ Len(hist[n][2].out.emitted) = 1

\* Node n was validated with a resolved input and an unsupported
\* operator_type or element type.
Violating(n) ==
    \E k \in 1..Len(hist[n]) :
        /\ IsTensorType(hist[n][k].types[1])
        /\ \/ hist[n][k].attrs.operator_type # "ABS"
           \/ hist[n][k].types[1].dtype \notin Supported8Bit

=============================================================================
